---- MODULE Spec2Model ----
(***************************************************************************)
(* A model of archiver.py: the leaderboard archiver.                       *)
(*                                                                         *)
(* One run of the script is modelled: LeaderboardArchiver() is built from  *)
(* the environment, archive_all_combinations() fans get_scores() out over  *)
(* the descriptor list, folds the results as they complete, and hands the  *)
(* document to compress_and_save_archive(); git_update() follows main().   *)
(*                                                                         *)
(* Spec     the run, over the first MaxTasks descriptors of the list.      *)
(* SpecOne  the same run over any single one of the 240 descriptors, with  *)
(*          the full set of modelled remote answers.                       *)
(* SpecFull the run over all 240 descriptors, the requests ending one at a *)
(*          time, forwards or backwards, the answer changing per block.    *)
(* FairSpec Spec under the scheduling of the event loop, every request     *)
(*          taken to end.                                                  *)
(***************************************************************************)
EXTENDS Integers, Sequences, FiniteSets, TLC

VARIABLES
    pc,                   \* position of the script's main flow
    environ,              \* os.environ after load_dotenv(): USER_TOKEN and DB_LINK
    combinations,         \* the descriptor list of archive_all_combinations
    session,              \* the aiohttp.ClientSession: "none", "open", "closed"
    resp,                 \* per task: how its single request attempt ended
    done,                 \* as_completed's queue: the finished calls, in completion order
    consumed,             \* the calls the loop has awaited so far, in its order
    successful_archives,
    failed_archives,
    all_data,             \* the dict, as its (key, value) items in insertion order
    writer_calls,         \* payloads handed to compress_and_save_archive (json_data of each call)
    fs,                   \* the archives directory: path -> file state
    clock,                \* datetime.now(), at the granularity of the calendar date
    log,                  \* the logger's records, in order
    git_runs              \* number of git_update() executions

vars == <<pc, environ, combinations, session, resp, done, consumed,
          successful_archives, failed_archives, all_data, writer_calls,
          fs, clock, log, git_runs>>

(***************************************************************************)
(* Bounds of the model.                                                    *)
(***************************************************************************)
\* Spec fans out over the first MaxTasks descriptors of the 240.
MaxTasks == 3
\* SpecFull lets the remote change its answer every BlockSize requests.
BlockSize == 70

(***************************************************************************)
(* The parameter space (archive_all_combinations, lines 111-121).          *)
(***************************************************************************)
\* range(a, b) as a sequence
range(a, b) == [i \in 1..(b - a) |-> a + i - 1]

display_types == range(1, 21)
control_types == range(0, 4)
pb_types == range(1, 4)

RECURSIVE Flatten(_)
Flatten(ss) == IF ss = <<>> THEN <<>> ELSE Head(ss) \o Flatten(Tail(ss))

\* The comprehension with its loops nested the other way round.
AllCombinationsPbOuter ==
    Flatten([k \in DOMAIN pb_types |->
        Flatten([j \in DOMAIN control_types |->
            [i \in DOMAIN display_types |->
                <<display_types[i], control_types[j], pb_types[k]>>]])])

\* [(dt, ct, pt) for dt in display_types for ct in control_types for pt in pb_types]
AllCombinations ==
    Flatten([i \in DOMAIN display_types |->
        Flatten([j \in DOMAIN control_types |->
            [k \in DOMAIN pb_types |->
                <<display_types[i], control_types[j], pb_types[k]>>]])])

total_combinations == Len(combinations)

(***************************************************************************)
(* The remote API, as seen through session.post().                         *)
(* A request attempt ends with an HTTP response or with an exception       *)
(* raised by the transport. A response has a status and a body whose read  *)
(* (response.text()) either gives the text or raises. aiohttp's            *)
(* ClientResponse has no attribute statusText.                             *)
(***************************************************************************)
NoResponse == [kind |-> "none"]

\* An exception: its class and str(e).
Exc(class, detail) == [class |-> class, detail |-> detail]

\* A response: its status, and what response.text() gives: the text, or an
\* exception while the body is read.
HttpResponse(status, text) ==
    [kind |-> "response", status |-> status, text |-> text]
Text(body) == [ok |-> TRUE, value |-> body]
TextRaises(e) == [ok |-> FALSE, exc |-> e]

\* session.post() raised.
TransportError(e) == [kind |-> "exception", exc |-> e]

Bodies == {"{}", "[1,2]"}
Statuses == {200, 201, 204, 404, 500}
\* a refused connection, and the session's timeout (str(TimeoutError()) is empty)
TransportExceptions ==
    { Exc("ClientConnectorError", "Cannot connect to host"), Exc("TimeoutError", "") }
PayloadError == Exc("ClientPayloadError", "Response payload is not completed")
AttributeError ==
    Exc("AttributeError", "'ClientResponse' object has no attribute 'statusText'")

\* Every modelled answer to one request.
Responses ==
    {HttpResponse(s, Text(b)) : s \in Statuses, b \in Bodies}
    \cup {HttpResponse(s, TextRaises(PayloadError)) : s \in Statuses}
    \cup {TransportError(e) : e \in TransportExceptions}

\* The answers drawn in Spec.
RunResponses ==
    { HttpResponse(200, Text("{}")), HttpResponse(500, Text("{}")),
      TransportError(Exc("TimeoutError", "")) }

(***************************************************************************)
(* get_scores (lines 29-69).                                               *)
(***************************************************************************)
\* Success that parses the text and serializes it again (json.loads, then
\* json.dumps with its default separators).
Reserialized(text) == IF text = "[1,2]" THEN "[1, 2]" ELSE text
SuccessReserialized(text, display_type, control_type, pb_type) ==
    [status |-> TRUE, data |-> Reserialized(text), display_type |-> display_type,
     control_type |-> control_type, pb_type |-> pb_type]

Success(text, display_type, control_type, pb_type) ==
    [status |-> TRUE, data |-> text, display_type |-> display_type,
     control_type |-> control_type, pb_type |-> pb_type]

\* Failure with a copy-paste slip: pb_type filled from control_type.
FailureCopyPaste(message, display_type, control_type, pb_type) ==
    [status |-> FALSE, message |-> message, display_type |-> display_type,
     control_type |-> control_type, pb_type |-> control_type]

Failure(message, display_type, control_type, pb_type) ==
    [status |-> FALSE, message |-> message, display_type |-> display_type,
     control_type |-> control_type, pb_type |-> pb_type]

\* What a block of code does: it returns a value or raises an exception.
Returns(value) == [raised |-> FALSE, value |-> value]
Raises(e) == [raised |-> TRUE, exc |-> e]

\* The else branch (lines 53-60): the f-string reads response.status and
\* response.statusText, and the lookup of a missing attribute raises
\* AttributeError. "$" is an ordinary character of a Python f-string.
ErrorBranch(response, display_type, control_type, pb_type) ==
    IF "statusText" \in DOMAIN response
    THEN Returns(Failure("Error: $" \o ToString(response.status) \o " $"
                             \o response.statusText,
                         display_type, control_type, pb_type))
    ELSE Raises(AttributeError)

\* The test of line 44.
IsOk(response) == response.status = 200

\* The try block (lines 32-60).
TryBlock(response, display_type, control_type, pb_type) ==
    IF response.kind = "exception"
    THEN Raises(response.exc)
    ELSE IF IsOk(response)
         THEN IF response.text.ok
              THEN Returns(Success(response.text.value, display_type, control_type,
                                   pb_type))
              ELSE Raises(response.text.exc)
         ELSE ErrorBranch(response, display_type, control_type, pb_type)

\* except Exception (line 62): every modelled exception class derives from
\* Exception.
ExceptionClasses ==
    {"ClientConnectorError", "TimeoutError", "ClientPayloadError", "AttributeError"}
\* except aiohttp.ClientError in place of except Exception.
CatchesClientErrors(e) == e.class \in {"ClientConnectorError", "ClientPayloadError"}

Catches(e) == e.class \in ExceptionClasses

\* The except clause (lines 62-69).
RequestFailed(e, display_type, control_type, pb_type) ==
    Failure("Request failed: " \o e.detail, display_type, control_type, pb_type)

\* What awaiting get_scores gives: the dict it returns, or the exception
\* that leaves it.
get_scores(response, display_type, control_type, pb_type) ==
    LET body == TryBlock(response, display_type, control_type, pb_type)
    IN  IF body.raised /\ Catches(body.exc)
        THEN Returns(RequestFailed(body.exc, display_type, control_type, pb_type))
        ELSE body

(***************************************************************************)
(* The loop body of archive_all_combinations (lines 141-155).              *)
(***************************************************************************)
\* Key without its last component.
KeyNoPb(result) ==
    ToString(result.display_type) \o "_" \o ToString(result.control_type)

\* f"{result['display_type']}_{result['control_type']}_{result['pb_type']}"
Key(result) ==
    ToString(result.display_type) \o "_" \o ToString(result.control_type)
        \o "_" \o ToString(result.pb_type)

\* The test of line 143.
IsSuccess(result) == result.status /\ "data" \in DOMAIN result

\* dict assignment d[key] = value on the item list: an existing key keeps its
\* position and takes the new value, a new key is appended.
DictSet(items, key, value) ==
    IF \E i \in DOMAIN items : items[i][1] = key
    THEN [i \in DOMAIN items |-> IF items[i][1] = key THEN <<key, value>> ELSE items[i]]
    ELSE Append(items, <<key, value>>)

DictKeys(items) == {items[i][1] : i \in DOMAIN items}

DictGet(items, key) == items[CHOOSE i \in DOMAIN items : items[i][1] = key][2]

(***************************************************************************)
(* compress_and_save_archive (lines 71-106).                               *)
(***************************************************************************)
\* datetime.now().isoformat() and .strftime("%Y%m%d") on calendar day t
isoformat(t) == "day" \o ToString(t) \o "T12:00:00"
strftime(t) == "day" \o ToString(t)

\* os.path.join("archives", f"leaderboard_{current_date}.lzma")
ArchivePath(current_date) == "archives/leaderboard_" \o current_date \o ".lzma"

\* json.dumps of a str (the modelled texts hold no character that is escaped)
JsonStr(s) == "\"" \o s \o "\""

\* json.dumps of a dict of str -> str with separators=(',', ':'): the items
\* in the dict's order; sort_keys is not passed.
RECURSIVE JsonItems(_)
JsonItems(items) ==
    IF items = <<>> THEN ""
    ELSE IF Len(items) = 1
         THEN JsonStr(items[1][1]) \o ":" \o JsonStr(items[1][2])
         ELSE LET half == Len(items) \div 2
              IN  JsonItems(SubSeq(items, 1, half)) \o ","
                      \o JsonItems(SubSeq(items, half + 1, Len(items)))

\* json.dumps({"timestamp": ..., "data": all_data}, separators=(',', ':'))
JsonDumps(timestamp, data) ==
    "{" \o JsonStr("timestamp") \o ":" \o JsonStr(timestamp) \o ","
        \o JsonStr("data") \o ":{" \o JsonItems(data) \o "}}"

\* File states of a path under archives/.
Absent == [state |-> "absent"]
Complete(json_data) == [state |-> "complete", content |-> json_data]
\* opened with 'wb' (truncated) and not written to the end
Truncated == [state |-> "truncated"]

\* Where the body of compress_and_save_archive can raise.
WriteFaults == {"none", "makedirs", "open", "write"}

\* The file at archive_path after the call: os.makedirs and lzma.open raise
\* before the file is touched; lzma.open(path, 'wb') truncates it; a failed
\* f.write leaves what was written so far.
FileAfterWrite(old, json_data, fault) ==
    CASE fault = "none" -> Complete(json_data)
      [] fault = "write" -> Truncated
      [] OTHER -> old

\* The records compress_and_save_archive logs.
WriterLog(archive_path, fault) ==
    IF fault = "none"
    THEN << [event |-> "lzma_saved", path |-> archive_path],
            [event |-> "compression"] >>
    ELSE << [event |-> "compress_failed", fault |-> fault] >>

\* Its return value: the path, or None.
None == "None"
WriterReturn(archive_path, fault) == IF fault = "none" THEN archive_path ELSE None

\* The call as a whole: t1 and t2 are the two readings of datetime.now()
\* (lines 76 and 88), fault is where the body raises.
compress_and_save_archive(data, files, t1, t2, fault) ==
    LET json_data == JsonDumps(isoformat(t1), data)
        archive_path == ArchivePath(strftime(t2))
    IN  [ json_data |-> json_data,
          archive_path |-> archive_path,
          files |-> [files EXCEPT ![archive_path] =
                        FileAfterWrite(@, json_data, fault)],
          t1 |-> t1,
          t2 |-> t2,
          log |-> WriterLog(archive_path, fault),
          ret |-> WriterReturn(archive_path, fault),
          fault |-> fault ]

(***************************************************************************)
(* The configuration (__init__, lines 20-27).                              *)
(***************************************************************************)
\* What os.getenv gives: None for a variable that is not set, or its value,
\* which may be the empty string.
Unset == "<None>"
EnvValues == {Unset, "", "value"}

\* A test for None in place of the truth test.
IsNotNone(v) == v # Unset

\* bool(v) of line 24: None and the empty string are false.
Truthy(v) == v # Unset /\ v # ""

\* The test of line 24, negated: both variables are usable.
ConfigOk == Truthy(environ.USER_TOKEN) /\ Truthy(environ.DB_LINK)

(***************************************************************************)
(* The file system before the run: nothing, or the archive an earlier run  *)
(* of the same day left.                                                   *)
(***************************************************************************)
Days == {0, 1}
Paths == {ArchivePath(strftime(t)) : t \in Days}
PreviousArchive == Complete(JsonDumps(isoformat(0), << <<"1_0_1", "[1,2]">> >>))
InitialFiles ==
    { [p \in Paths |-> Absent],
      [p \in Paths |-> IF p = ArchivePath(strftime(0)) THEN PreviousArchive ELSE Absent] }

(***************************************************************************)
(* The run.                                                                *)
(***************************************************************************)
Init ==
    /\ pc = "start"
    /\ environ \in [USER_TOKEN : EnvValues, DB_LINK : EnvValues]
    /\ combinations = <<>>
    /\ session = "none"
    /\ resp = <<>>
    /\ done = <<>>
    /\ consumed = <<>>
    /\ successful_archives = 0
    /\ failed_archives = 0
    /\ all_data = <<>>
    /\ writer_calls = <<>>
    /\ fs \in InitialFiles
    /\ clock = 0
    /\ log = <<>>
    /\ git_runs = 0

\* main() up to the first await of the loop (lines 176-177, 20-27, 111-140):
\* the constructor raises ValueError when a variable is missing, which main
\* logs; otherwise the session is opened and as_completed schedules one
\* get_scores per descriptor.
Start(descriptors) ==
    /\ pc = "start"
    /\ IF ConfigOk
       THEN /\ combinations' = descriptors
            /\ session' = "open"
            /\ resp' = [i \in DOMAIN descriptors |-> NoResponse]
            /\ log' = Append(log, [event |-> "starting", total |-> Len(descriptors)])
            /\ pc' = "loop"
       ELSE /\ log' = Append(log, [event |-> "configuration_error"])
            /\ pc' = "returned"
            /\ UNCHANGED <<combinations, session, resp>>
    /\ UNCHANGED <<environ, done, consumed, successful_archives, failed_archives,
                   all_data, writer_calls, fs, clock, git_runs>>

\* The request of task i ends with response r: its get_scores returns and
\* as_completed's callback queues the result.
Resolve(i, r) ==
    /\ pc = "loop"
    /\ session = "open"
    /\ i \in DOMAIN resp
    /\ resp[i] = NoResponse
    /\ resp' = [resp EXCEPT ![i] = r]
    /\ done' = Append(done, get_scores(r, combinations[i][1], combinations[i][2],
                                       combinations[i][3]))
    /\ UNCHANGED <<pc, environ, combinations, session, consumed, successful_archives,
                   failed_archives, all_data, writer_calls, fs, clock, log, git_runs>>

ProgressEvery == 20

\* The progress test on the count of successes alone.
IterationLogSuccesses(result, current_progress) ==
    LET successes == successful_archives + (IF IsSuccess(result) THEN 1 ELSE 0)
    IN  (IF IsSuccess(result) THEN <<>>
         ELSE << [event |-> "failed_for", key |-> Key(result),
                  message |-> IF "message" \in DOMAIN result THEN result.message
                              ELSE "Unknown error"] >>)
        \o (IF successes % ProgressEvery = 0
            THEN << [event |-> "progress", current |-> successes,
                     total |-> total_combinations] >>
            ELSE <<>>)

\* The records one iteration logs (lines 150 and 153-155).
IterationLog(result, current_progress) ==
    (IF IsSuccess(result) THEN <<>>
     ELSE << [event |-> "failed_for", key |-> Key(result),
              message |-> IF "message" \in DOMAIN result THEN result.message
                          ELSE "Unknown error"] >>)
    \o (IF current_progress % ProgressEvery = 0
        THEN << [event |-> "progress", current |-> current_progress,
                 total |-> total_combinations] >>
        ELSE <<>>)

\* The loop over when no finished call is waiting.
LoopDoneWhenIdle == done = <<>>

\* The loop waiting for one result more than there are tasks.
LoopDoneOneMore == Len(consumed) = Len(combinations) + 1

\* The loop over one iteration early.
LoopDoneOneLess == Len(consumed) >= Len(combinations) - 1

\* The loop over at the first failure.
LoopDoneOnFailure == Len(consumed) = Len(combinations) \/ failed_archives > 0

\* as_completed yields one awaitable per task (line 140): the loop is over
\* when it has run once per task.
LoopDone == Len(consumed) = Len(combinations)

\* One iteration of the loop (lines 140-155): the next finished call. An
\* exception that left get_scores is raised again by the await of line 141,
\* leaves the async with block and is logged by main (lines 180-181).
Consume ==
    /\ pc = "loop"
    /\ ~LoopDone
    /\ done # <<>>
    /\ done' = Tail(done)
    /\ consumed' = Append(consumed, Head(done))
    /\ IF Head(done).raised
       THEN /\ session' = "closed"
            /\ log' = Append(log, [event |-> "unexpected_error"])
            /\ pc' = "returned"
            /\ UNCHANGED <<all_data, successful_archives, failed_archives>>
       ELSE LET result == Head(done).value
                ok == IsSuccess(result)
            IN  /\ all_data' = IF ok THEN DictSet(all_data, Key(result), result.data)
                               ELSE all_data
                /\ successful_archives' = successful_archives + (IF ok THEN 1 ELSE 0)
                /\ failed_archives' = failed_archives + (IF ok THEN 0 ELSE 1)
                /\ log' = log \o IterationLog(result,
                                      successful_archives + failed_archives + 1)
                /\ UNCHANGED <<pc, session>>
    /\ UNCHANGED <<environ, combinations, resp, writer_calls, fs, clock, git_runs>>

\* The loop has run once per task: the async with block ends (lines 155-156).
CloseSession ==
    /\ pc = "loop"
    /\ LoopDone
    /\ session' = "closed"
    /\ pc' = "archive"
    /\ UNCHANGED <<environ, combinations, resp, done, consumed, successful_archives,
                   failed_archives, all_data, writer_calls, fs, clock, log, git_runs>>

\* The summary with its two counts exchanged.
SummarySwapped ==
    [event |-> "completed", successful |-> failed_archives,
     failed |-> successful_archives]

Summary ==
    [event |-> "completed", successful |-> successful_archives,
     failed |-> failed_archives]

\* The test of line 158 with >= for >.
HasSuccessOrNone == successful_archives >= 0

\* The test of line 158.
HasSuccess == successful_archives > 0

\* Lines 158-160: the archive is written, at a date that may change between
\* the two readings of the clock, and with or without a fault (os.makedirs
\* raises before the second reading).
WriteArchive ==
    /\ pc = "archive"
    /\ HasSuccess
    /\ \E fault \in WriteFaults :
       \E t2 \in IF fault = "makedirs" THEN {clock} ELSE {clock, clock + 1} :
          LET w == compress_and_save_archive(all_data, fs, clock, t2, fault)
          IN  /\ fs' = w.files
              /\ clock' = t2
              /\ writer_calls' = Append(writer_calls, w)
              /\ log' = log \o w.log
                            \o << [event |-> "archive_saved_to", path |-> w.ret] >>
                            \o << Summary >>
    /\ pc' = "returned"
    /\ UNCHANGED <<environ, combinations, session, resp, done, consumed,
                   successful_archives, failed_archives, all_data, git_runs>>

\* Lines 161-162: nothing to compress.
SkipArchive ==
    /\ pc = "archive"
    /\ ~HasSuccess
    /\ log' = log \o << [event |-> "no_successful_archives"] >> \o << Summary >>
    /\ pc' = "returned"
    /\ UNCHANGED <<environ, combinations, session, resp, done, consumed,
                   successful_archives, failed_archives, all_data, writer_calls,
                   fs, clock, git_runs>>

\* git_update() called only at the end of a run that wrote its archive.
GitUpdateAfterArchive ==
    /\ pc = "returned"
    /\ \E n \in DOMAIN writer_calls : writer_calls[n].fault = "none"
    /\ git_runs' = git_runs + 1
    /\ pc' = "exited"
    /\ UNCHANGED <<environ, combinations, session, resp, done, consumed,
                   successful_archives, failed_archives, all_data, writer_calls,
                   fs, clock, log>>

\* asyncio.run(main()) has returned: git_update() (lines 167-171, 186).
GitUpdate ==
    /\ pc = "returned"
    /\ git_runs' = git_runs + 1
    /\ pc' = "exited"
    /\ UNCHANGED <<environ, combinations, session, resp, done, consumed,
                   successful_archives, failed_archives, all_data, writer_calls,
                   fs, clock, log>>

Next ==
    \/ Start(SubSeq(AllCombinations, 1, MaxTasks))
    \/ \E i \in 1..MaxTasks, r \in RunResponses : Resolve(i, r)
    \/ Consume
    \/ CloseSession
    \/ WriteArchive
    \/ SkipArchive
    \/ GitUpdate

Spec == Init /\ [][Next]_vars

\* The run over one descriptor, any of the list, with every modelled answer.
NextOne ==
    \/ \E n \in DOMAIN AllCombinations : Start(<<AllCombinations[n]>>)
    \/ \E r \in Responses : Resolve(1, r)
    \/ Consume
    \/ CloseSession
    \/ WriteArchive
    \/ SkipArchive
    \/ GitUpdate

SpecOne == Init /\ [][NextOne]_vars

\* The run over all 240 descriptors. The requests end one at a time, in the
\* order of submission or in the reverse order, and the remote changes its
\* answer only every BlockSize requests.
FullResponses == { HttpResponse(200, Text("{}")), TransportError(Exc("TimeoutError", "")) }

InitFull ==
    /\ Init
    /\ ConfigOk
    /\ \A p \in Paths : fs[p] = Absent

\* Task i is the next to end, and r may be its answer.
InTurn(i, r) ==
    /\ done = <<>>
    /\ IF \A j \in DOMAIN resp : resp[j] = NoResponse
       THEN i \in {1, Len(resp)}
       ELSE IF resp[1] # NoResponse
            THEN /\ i > 1
                 /\ resp[i - 1] # NoResponse
                 /\ Len(consumed) % BlockSize # 0 => r = resp[i - 1]
            ELSE /\ i < Len(resp)
                 /\ resp[i + 1] # NoResponse
                 /\ Len(consumed) % BlockSize # 0 => r = resp[i + 1]

NextFull ==
    \/ Start(AllCombinations)
    \/ \E i \in DOMAIN AllCombinations, r \in FullResponses :
          InTurn(i, r) /\ Resolve(i, r)
    \/ Consume
    \/ CloseSession
    \/ WriteArchive
    \/ SkipArchive
    \/ GitUpdate

SpecFull == InitFull /\ [][NextFull]_vars

\* The run under the scheduling of asyncio.run: the event loop runs every
\* callback that is ready and the script's statements follow one another;
\* every request is taken to end (with an answer or with an exception).
FairSpec ==
    /\ Init
    /\ [][Next]_vars
    /\ WF_vars(Start(SubSeq(AllCombinations, 1, MaxTasks)))
    /\ \A i \in 1..MaxTasks : WF_vars(\E r \in RunResponses : Resolve(i, r))
    /\ WF_vars(Consume)
    /\ WF_vars(CloseSession)
    /\ WF_vars(WriteArchive)
    /\ WF_vars(SkipArchive)
    /\ WF_vars(GitUpdate)

(***************************************************************************)
(* Vocabulary of the properties.                                           *)
(***************************************************************************)
\* The descriptor a returned dict carries, and the key of a descriptor.
Desc(result) == <<result.display_type, result.control_type, result.pb_type>>
DescKey(d) == ToString(d[1]) \o "_" \o ToString(d[2]) \o "_" \o ToString(d[3])

\* How often the loop has taken the outcome of descriptor d.
TimesConsumed(d) ==
    Cardinality({j \in DOMAIN consumed :
                    ~consumed[j].raised /\ Desc(consumed[j].value) = d})

\* Tasks whose outcome the loop has taken, split by the outcome.
ConsumedTasks == {i \in DOMAIN combinations : TimesConsumed(combinations[i]) >= 1}
OutcomeIs(i, status) ==
    \E j \in DOMAIN consumed :
        /\ ~consumed[j].raised
        /\ Desc(consumed[j].value) = combinations[i]
        /\ consumed[j].value.status = status
SuccessTasks == {i \in ConsumedTasks : OutcomeIs(i, TRUE)}
FailureTasks == {i \in ConsumedTasks : OutcomeIs(i, FALSE)}

\* The loop and the session are over.
LoopEnded == pc \in {"archive", "returned", "exited"} /\ session = "closed"
RunEnded == pc \in {"returned", "exited"} /\ session = "closed"

Logged(event) == \E n \in DOMAIN log : log[n].event = event

(***************************************************************************)
(* C1. Whatever the completion order and whichever calls fail, when the    *)
(* loop has ended every descriptor's outcome has been taken exactly once   *)
(* and successful_archives + failed_archives is the number of descriptors. *)
(***************************************************************************)
C1_EachOutcomeOnce ==
    LoopEnded =>
        /\ successful_archives + failed_archives = total_combinations
        /\ Len(consumed) = total_combinations
        /\ \A i \in DOMAIN combinations : TimesConsumed(combinations[i]) = 1

\* A mixed run whose last submitted call finished first.
C1_Witness ==
    /\ pc = "archive"
    /\ total_combinations = MaxTasks
    /\ successful_archives > 0
    /\ failed_archives > 0
    /\ Desc(consumed[1].value) = combinations[Len(combinations)]

(***************************************************************************)
(* C2. In every state of the loop: the counters add up to the number of    *)
(* outcomes taken, all_data has successful_archives entries, its keys are  *)
(* the keys d_c_p of the descriptors whose outcome was a success, no key   *)
(* is that of a failed descriptor, and no two descriptors share a key.     *)
(***************************************************************************)
C2_AggregatorInvariant ==
    /\ successful_archives + failed_archives = Len(consumed)
    /\ Len(all_data) = successful_archives
    /\ Cardinality(DictKeys(all_data)) = successful_archives
    /\ DictKeys(all_data) = {DescKey(combinations[i]) : i \in SuccessTasks}
    /\ \A i \in FailureTasks : DescKey(combinations[i]) \notin DictKeys(all_data)
    /\ \A i, j \in DOMAIN combinations :
          i # j => DescKey(combinations[i]) # DescKey(combinations[j])

\* In the middle of the loop, after a success and a failure, a call waiting.
C2_Witness ==
    /\ pc = "loop"
    /\ done # <<>>
    /\ successful_archives >= 1
    /\ failed_archives >= 1

(***************************************************************************)
(* C3. compress_and_save_archive is called only when every request has    *)
(* ended and every outcome has been taken by the loop.                     *)
(***************************************************************************)
C3_Barrier ==
    writer_calls # <<>> =>
        /\ \A i \in DOMAIN resp : resp[i] # NoResponse
        /\ done = <<>>
        /\ ConsumedTasks = DOMAIN combinations
        /\ writer_calls[1].json_data = JsonDumps(isoformat(writer_calls[1].t1), all_data)

\* The writer has been called in a run with a failure.
C3_Witness ==
    /\ writer_calls # <<>>
    /\ failed_archives > 0
    /\ total_combinations = MaxTasks

(***************************************************************************)
(* C4. A run that ends with successful_archives = 0 never calls the        *)
(* writer, leaves the archive files as they were and reports that there is *)
(* nothing to compress; a run with a success calls the writer once.        *)
(***************************************************************************)
C4_NoSuccessNoArchive ==
    /\ [](RunEnded /\ combinations # <<>> =>
            IF successful_archives = 0
            THEN /\ writer_calls = <<>>
                 /\ Logged("no_successful_archives")
                 /\ ~Logged("archive_saved_to")
            ELSE /\ Len(writer_calls) = 1
                 /\ ~Logged("no_successful_archives"))
    /\ [][successful_archives' = 0 => fs' = fs]_vars

\* Every request failed, with an earlier archive on disk.
C4_Witness ==
    /\ pc = "exited"
    /\ successful_archives = 0
    /\ failed_archives = MaxTasks
    /\ \E p \in Paths : fs[p] = PreviousArchive

(***************************************************************************)
(* C5. A failed request stays local: no exception reaches the loop, the    *)
(* iteration that takes a failure changes nothing but failed_archives (and *)
(* the log), the requests still pending stay able to end with any answer,  *)
(* each outcome depends on its own answer only, and the loop still takes   *)
(* every outcome.                                                          *)
(***************************************************************************)
C5_FailureIsolation ==
    /\ [](\A j \in DOMAIN consumed : ~consumed[j].raised)
    /\ [](pc = "loop" =>
            \A i \in DOMAIN resp :
                resp[i] = NoResponse => \A r \in RunResponses : ENABLED Resolve(i, r))
    /\ [](\A i \in SuccessTasks : resp[i].kind = "response" /\ resp[i].status = 200)
    /\ [](LoopEnded => ConsumedTasks = DOMAIN combinations)
    /\ [][failed_archives' # failed_archives =>
            /\ failed_archives' = failed_archives + 1
            /\ successful_archives' = successful_archives
            /\ all_data' = all_data
            /\ pc' = pc
            /\ session' = session
            /\ resp' = resp
            /\ done' = Tail(done)]_vars

\* The first outcome taken was a failure and a later one a success.
C5_Witness ==
    /\ pc = "archive"
    /\ Len(consumed) = MaxTasks
    /\ ~consumed[1].value.status
    /\ consumed[MaxTasks].value.status

(***************************************************************************)
(* Vocabulary of the properties about get_scores.                          *)
(***************************************************************************)
\* The finished calls, in completion order.
FinishedCalls == consumed \o done

\* The finished calls of task i: those that returned a dict with its descriptor.
CallsOf(i) ==
    {k \in DOMAIN FinishedCalls :
        ~FinishedCalls[k].raised /\ Desc(FinishedCalls[k].value) = combinations[i]}

Answered(i) == resp[i].kind = "response"
BodyRead(i) == Answered(i) /\ resp[i].text.ok

\* The messages of the form "Error: <status>", with or without a reason phrase.
ReasonPhrases == {"Created", "No Content", "Not Found", "Internal Server Error"}
ErrorMessages(status) ==
    {"Error: " \o ToString(status)}
    \cup {"Error: " \o ToString(status) \o " " \o t : t \in ReasonPhrases}

(***************************************************************************)
(* C6. When the API answers with a status outside 2xx, get_scores returns  *)
(* a failure for the descriptor whose message is "Error: <status>" with    *)
(* the status of the response.                                             *)
(***************************************************************************)
C6_ErrorCarriesStatus ==
    \A i \in DOMAIN resp :
        (Answered(i) /\ resp[i].status \notin 200..299) =>
            /\ CallsOf(i) # {}
            /\ \A k \in CallsOf(i) :
                  /\ ~FinishedCalls[k].value.status
                  /\ FinishedCalls[k].value.message \in ErrorMessages(resp[i].status)

(***************************************************************************)
(* C7, as claimed. When the API answers with any 2xx status and the body   *)
(* is read, get_scores returns a success with the descriptor and the text  *)
(* as received, and the loop stores that text under the descriptor's key.  *)
(***************************************************************************)
StoredVerbatim(i) ==
    /\ CallsOf(i) # {}
    /\ \A k \in CallsOf(i) :
          /\ FinishedCalls[k].value.status
          /\ "data" \in DOMAIN FinishedCalls[k].value
          /\ FinishedCalls[k].value.data = resp[i].text.value
    /\ i \in ConsumedTasks =>
          /\ DescKey(combinations[i]) \in DictKeys(all_data)
          /\ DictGet(all_data, DescKey(combinations[i])) = resp[i].text.value

C8_GetScoresTotal ==
    /\ [](\A k \in DOMAIN FinishedCalls :
            /\ ~FinishedCalls[k].raised
            /\ "status" \in DOMAIN FinishedCalls[k].value
            /\ \E i \in DOMAIN combinations : Desc(FinishedCalls[k].value) = combinations[i])
    /\ [](\A i \in DOMAIN resp :
            Cardinality(CallsOf(i)) = IF resp[i] = NoResponse THEN 0 ELSE 1)
    /\ [](\A i \in DOMAIN resp : \A k \in CallsOf(i) :
            /\ resp[i].kind = "exception" =>
                  /\ ~FinishedCalls[k].value.status
                  /\ FinishedCalls[k].value.message
                        = "Request failed: " \o resp[i].exc.detail
            /\ (Answered(i) /\ resp[i].status = 200 /\ ~resp[i].text.ok) =>
                  /\ ~FinishedCalls[k].value.status
                  /\ FinishedCalls[k].value.message
                        = "Request failed: " \o resp[i].text.exc.detail)
    /\ [][\A i \in DOMAIN resp : resp[i] # NoResponse => resp'[i] = resp[i]]_vars

\* The request timed out and the loop counted the failure.
C8_Witness ==
    /\ pc = "archive"
    /\ resp[1] = TransportError(Exc("TimeoutError", ""))
    /\ failed_archives = 1
    /\ consumed[1].value.message = "Request failed: "

(***************************************************************************)
(* C9. The payload is the same for every completion order: the json_data   *)
(* the writer builds is the one built in the run where the same requests   *)
(* succeed and the calls finish in the order of submission.                *)
(***************************************************************************)
\* all_data as that run builds it.
InSubmissionOrder ==
    LET Stored(item) == item[1] \in DictKeys(all_data)
        items == [i \in DOMAIN combinations |->
                    LET key == DescKey(combinations[i])
                    IN  <<key, IF key \in DictKeys(all_data)
                               THEN DictGet(all_data, key) ELSE "">>]
    IN  SelectSeq(items, Stored)

C9_PayloadOrderIndependent ==
    \A n \in DOMAIN writer_calls :
        writer_calls[n].json_data
            = JsonDumps(isoformat(writer_calls[n].t1), InSubmissionOrder)

(***************************************************************************)
(* C10. A run whose archive write failed reports no saved archive.         *)
(***************************************************************************)
C10_FailedWriteNotReportedSaved ==
    \A n \in DOMAIN writer_calls :
        writer_calls[n].fault # "none" =>
            /\ ~Logged("archive_saved_to")
            /\ ~Logged("lzma_saved")

(***************************************************************************)
(* C11. After compress_and_save_archive has returned, the file at the      *)
(* archive path is absent, or the complete archive an earlier run left, or *)
(* the complete new archive: never a partial or truncated file.            *)
(***************************************************************************)
C11_AtomicWrite ==
    /\ \A p \in Paths : fs[p].state # "truncated"
    /\ \A n \in DOMAIN writer_calls :
          LET w == writer_calls[n]
          IN  /\ fs[w.archive_path] \in {Absent, PreviousArchive, Complete(w.json_data)}
              /\ w.fault # "none" => fs[w.archive_path] # Complete(w.json_data)

(***************************************************************************)
(* C12. When USER_TOKEN or DB_LINK is absent or empty, the constructor     *)
(* fails and the configuration error is reported before any network        *)
(* activity: no session is opened, no get_scores call is issued and no     *)
(* archive file is written in that run.                                    *)
(***************************************************************************)
C12_ConfigErrorBeforeNetwork ==
    /\ []((environ.USER_TOKEN \in {Unset, ""} \/ environ.DB_LINK \in {Unset, ""}) =>
            /\ session = "none"
            /\ combinations = <<>>
            /\ resp = <<>>
            /\ done = <<>>
            /\ writer_calls = <<>>
            /\ pc # "start" => log = << [event |-> "configuration_error"] >>)
    /\ [][(environ.USER_TOKEN \in {Unset, ""} \/ environ.DB_LINK \in {Unset, ""}) =>
            fs' = fs]_vars

\* The run with an empty token has ended, an earlier archive still on disk.
C12_Witness ==
    /\ pc = "exited"
    /\ environ.USER_TOKEN = ""
    /\ environ.DB_LINK = "value"
    /\ log = << [event |-> "configuration_error"] >>
    /\ \E p \in Paths : fs[p] = PreviousArchive

(***************************************************************************)
(* C13. Once every outcome has been taken, the summary is logged, whether  *)
(* the archive is written, skipped for want of a success, or its write     *)
(* fails; it is logged once, as the last record, and its counts are the    *)
(* numbers of successful and failed requests of the run.                   *)
(***************************************************************************)
Summaries == {n \in DOMAIN log : log[n].event = "completed"}
Answered200 == {i \in DOMAIN resp : BodyRead(i) /\ resp[i].status = 200}

C13_SummaryAlways ==
    /\ (pc = "archive") ~> Logged("completed")
    /\ []((pc \in {"returned", "exited"} /\ combinations # <<>>) =>
            /\ Summaries = {Len(log)}
            /\ log[Len(log)].successful = Cardinality(Answered200)
            /\ log[Len(log)].failed = Len(combinations) - Cardinality(Answered200)
            /\ log[Len(log)].successful = Cardinality(SuccessTasks)
            /\ log[Len(log)].failed = Cardinality(FailureTasks))
    /\ [](pc \in {"start", "loop", "archive"} => Summaries = {})

\* The summary of a run with two successes and a failure whose write failed.
C13_Witness ==
    /\ pc = "returned"
    /\ writer_calls # <<>>
    /\ writer_calls[1].fault = "open"
    /\ log[Len(log)] = [event |-> "completed", successful |-> 2, failed |-> 1]

(***************************************************************************)
(* C14, as claimed. A run terminates only after it has written the archive *)
(* or reported that there is no successful archive (stated here for the    *)
(* runs whose configuration is complete).                                  *)
(***************************************************************************)
ArchiveWritten == \E n \in DOMAIN writer_calls : writer_calls[n].fault = "none"

C14_EndsAfterArchiveOrReport ==
    (pc = "exited" /\ ConfigOk) =>
        ArchiveWritten \/ Logged("no_successful_archives")

(***************************************************************************)
(* C14, amended. If every request ends, every run terminates; a run whose  *)
(* configuration is complete terminates only after it has called           *)
(* compress_and_save_archive (whose write may fail) or reported that there *)
(* is no successful archive; and while a request has not ended, neither    *)
(* the archive step nor the summary is reached.                            *)
(***************************************************************************)
C14_Termination ==
    /\ <>(pc = "exited")
    /\ []((pc = "exited" /\ ConfigOk) =>
            writer_calls # <<>> \/ Logged("no_successful_archives"))
    /\ []((\E i \in DOMAIN resp : resp[i] = NoResponse) =>
            /\ pc = "loop"
            /\ writer_calls = <<>>
            /\ ~Logged("no_successful_archives")
            /\ ~Logged("completed"))

\* A run that ended after a failed write: no archive, no report of zero successes.
C14_Witness ==
    /\ pc = "exited"
    /\ writer_calls # <<>>
    /\ writer_calls[1].fault = "write"
    /\ ~Logged("no_successful_archives")
    /\ \A p \in Paths : fs[p].state # "complete"

(***************************************************************************)
(* C15. The descriptor list has 240 elements, holds every (d, c, p) with   *)
(* d in 1..20, c in 0..3, p in 1..3 exactly once, in the order of          *)
(* display_type, then control_type, then pb_type (pb_type fastest), and    *)
(* there is one get_scores call per element, task i for element i.         *)
(***************************************************************************)
\* The task of the k-th finished call when the requests end in the order of
\* submission (forwards) or in the reverse order.
Forwards == resp[1] # NoResponse /\ (Len(FinishedCalls) < Len(resp) \/
                Desc(FinishedCalls[1].value) = combinations[1])
TaskOfCall(k) == IF Forwards THEN k ELSE Len(resp) + 1 - k

C15_DescriptorList ==
    pc # "start" =>
        /\ Len(combinations) = 240
        /\ \A d \in 1..20 : \A c \in 0..3 : \A p \in 1..3 :
              combinations[(d - 1) * 12 + c * 3 + p] = <<d, c, p>>
        /\ \A i \in DOMAIN combinations :
              /\ combinations[i][1] \in 1..20
              /\ combinations[i][2] \in 0..3
              /\ combinations[i][3] \in 1..3
        /\ DOMAIN resp = DOMAIN combinations
        /\ \A k \in DOMAIN FinishedCalls :
              /\ ~FinishedCalls[k].raised
              /\ Desc(FinishedCalls[k].value) = combinations[TaskOfCall(k)]
              /\ resp[TaskOfCall(k)] # NoResponse

\* All 240 calls have been awaited, the last submitted first.
C15_Witness ==
    /\ pc = "archive"
    /\ Len(consumed) = 240
    /\ Desc(consumed[1].value) = <<20, 3, 3>>
    /\ Desc(consumed[240].value) = <<1, 0, 1>>

(***************************************************************************)
(* C16. A progress record is logged exactly when the number of outcomes    *)
(* taken is a positive multiple of 20, whatever the mix of successes and   *)
(* failures and the completion order: after n outcomes the progress        *)
(* records are those of 20, 40, ... up to n, each with the count and the   *)
(* total; a full run logs 12 of them, and the last one comes before the    *)
(* archive step.                                                           *)
(***************************************************************************)
IsProgress(record) == record.event = "progress"
ProgressRecords == SelectSeq(log, IsProgress)
ArchiveStepRecords ==
    {n \in DOMAIN log :
        log[n].event \in {"lzma_saved", "compression", "compress_failed",
                          "archive_saved_to", "no_successful_archives", "completed"}}

C16_ProgressEveryTwenty ==
    pc # "start" =>
        /\ ProgressRecords =
              [k \in 1..(Len(consumed) \div 20) |->
                  [event |-> "progress", current |-> 20 * k, total |-> 240]]
        /\ pc \in {"archive", "returned", "exited"} => Len(ProgressRecords) = 12
        /\ \A n \in ArchiveStepRecords : \A m \in DOMAIN log :
              IsProgress(log[m]) => m < n
        /\ ArchiveStepRecords # {} => Len(ProgressRecords) = 12

\* A full run with successes and failures, its twelve records logged.
C16_Witness ==
    /\ pc = "returned"
    /\ successful_archives > 0
    /\ failed_archives > 0
    /\ successful_archives + failed_archives = 240
    /\ Len(ProgressRecords) = 12
    /\ ProgressRecords[12].current = 240

(***************************************************************************)
(* C17. The session is acquired once per run and released once, after the  *)
(* loop has taken every outcome, whether the requests succeed or fail;     *)
(* every request ends while the session is open; the archive is written    *)
(* only after the session has been released.                               *)
(***************************************************************************)
C17_SessionScope ==
    /\ [][session' # session =>
            \/ session = "none" /\ session' = "open" /\ pc = "start"
            \/ /\ session = "open" /\ session' = "closed"
               /\ \A i \in DOMAIN resp : resp[i] # NoResponse
               /\ done = <<>>
               /\ Len(consumed) = Len(combinations)]_vars
    /\ [][(resp' # resp /\ pc # "start") => (session = "open" /\ session' = "open")]_vars
    /\ [](pc = "loop" => session = "open")
    /\ []((pc \in {"archive", "returned", "exited"} /\ combinations # <<>>) =>
            session = "closed")
    /\ [][writer_calls' # writer_calls => session = "closed"]_vars

\* The session released after a loop in which every request failed.
C17_Witness ==
    /\ pc = "archive"
    /\ session = "closed"
    /\ failed_archives = MaxTasks
    /\ \A i \in DOMAIN resp : resp[i].kind = "exception"

C19_NameDateIsTimestampDate ==
    \A n \in DOMAIN writer_calls :
        LET w == writer_calls[n]
        IN  w.fault = "none" =>
              /\ w.archive_path = ArchivePath(strftime(w.t1))
              /\ fs[w.archive_path] =
                    Complete(JsonDumps(isoformat(w.t1), all_data))

====
